---- MODULE Spec2Model ----
(***************************************************************************)
(* Model of spacytestwithcaching.py: the content-addressed entity cache,   *)
(* the segment planner, the annotation batch, the cache write-back and the *)
(* per-document aggregation of extract_all_entities_from_jsonl.            *)
(*                                                                         *)
(* Python values are represented as follows.                               *)
(*   str              a TLA+ string; a document text before splitting is a *)
(*                    sequence of tokens (words, " ", "\n\n") whose         *)
(*                    concatenation is the str                             *)
(*   list             a sequence                                           *)
(*   dict             a function; its DOMAIN is the key set ({} is <<>>)   *)
(*   set              a set                                                *)
(*   None             the record None                                      *)
(* A file on disk is a record [state, data]: state is "absent", "valid"    *)
(* (data is the pickled dict), "empty" (zero bytes, as left by             *)
(* open(..., 'wb')) or "truncated" (a prefix of a pickle).                 *)
(***************************************************************************)
EXTENDS Integers, Sequences, FiniteSets, TLC

VARIABLES
    cache_file,         \* entity_cache.pkl on disk
    output_file,        \* the output .jsonl on disk
    input_file,         \* the input .jsonl on disk: a sequence of JSON objects
    pc,                 \* position of the process in extract_all_entities_from_jsonl
    error,              \* the exception that ended the call, or "none"
    cache,              \* local `cache` (NoCache when unbound or deleted)
    all_text,           \* local `all_text`
    text_metadata,      \* local `text_metadata`
    texts_to_process,   \* local `texts_to_process`
    text_indices,       \* local `text_indices` (1-based here, 0-based in Python)
    cached_entities,    \* local `cached_entities`
    cache_hits,         \* local `cache_hits`
    new_cache_entries,  \* local `new_cache_entries`
    processed_docs,     \* local `processed_docs`: doc.ents of every annotated text
    doc_entities,       \* local `doc_entities`: [order: keys as inserted, map: key -> type -> set]
    records,            \* local `records`
    nlp_calls,          \* the batches handed to nlp.pipe during this call
    planned,            \* the snapshot, hits and misses as the planning loop left them
    killed,             \* TRUE once the process was killed (pc is where it was)
    cache_file_at_call, \* the cache file as it was when this call began
    prev,               \* summary of the previous call on the same cache file
    reloaded,           \* what the commit-time read of the cache file returned
    batch_files,        \* main: the input files found by glob, in order
    records_dir,        \* main: records/records_NNNN.jsonl, one file per batch
    batch               \* main: number of the batch in hand (0 outside main)

vars == <<cache_file, output_file, input_file, pc, error, cache, all_text,
          text_metadata, texts_to_process, text_indices, cached_entities,
          cache_hits, new_cache_entries, processed_docs, doc_entities, records,
          nlp_calls, planned, killed, cache_file_at_call, prev, reloaded,
                   batch_files, records_dir, batch>>

-----------------------------------------------------------------------------
(* Bounds of the model *)

MaxRecords == 3     \* lines of an input file
MaxBatches == 2     \* input files found by main

-----------------------------------------------------------------------------
(* Python values *)

None == [none |-> TRUE]
NoCache == [unbound |-> TRUE]
EmptyDict == <<>>

Range(s) == {s[i] : i \in DOMAIN s}

\* (mutant) update that forgets what the dict held
DictUpdate_dropsOld(d, other) == other

\* dict.update(other): other's entries win
DictUpdate(d, other) ==
    [k \in (DOMAIN d) \cup (DOMAIN other) |-> IF k \in DOMAIN other THEN other[k] ELSE d[k]]

\* d[k] = v on a dict
DictSet(d, k, v) == [j \in (DOMAIN d) \cup {k} |-> IF j = k THEN v ELSE d[j]]

\* list(a_set): the order depends on the process's string hashing; a hash
\* seed is the order in which the strings come out
Entities == {"Acme", "Alice", "Bob", "Eve"}
HashSeeds == {<<"Acme", "Alice", "Bob", "Eve">>, <<"Eve", "Bob", "Alice", "Acme">>}
ListOfSet(S, seed) == SelectSeq(seed, LAMBDA e : e \in S)

-----------------------------------------------------------------------------
(* Text: splitting, stripping, fingerprint *)

PARA == "\n\n"
Whitespace == {" "}

RECURSIVE LStrip(_)
LStrip(s) == IF Len(s) > 0 /\ Head(s) \in Whitespace THEN LStrip(Tail(s)) ELSE s

RECURSIVE RStrip(_)
RStrip(s) ==
    IF Len(s) > 0 /\ s[Len(s)] \in Whitespace THEN RStrip(SubSeq(s, 1, Len(s) - 1)) ELSE s

\* str.strip()
Strip(s) == RStrip(LStrip(s))

\* str.split('\n\n'): the pieces between separators, empty pieces included
RECURSIVE SplitFrom(_, _, _)
SplitFrom(s, piece, pieces) ==
    IF Len(s) = 0 THEN Append(pieces, piece)
    ELSE IF Head(s) = PARA THEN SplitFrom(Tail(s), <<>>, Append(pieces, piece))
    ELSE SplitFrom(Tail(s), Append(piece, Head(s)), pieces)

Split(s) == SplitFrom(s, <<>>, <<>>)

\* the str a token sequence stands for
RECURSIVE Join(_)
Join(s) == IF Len(s) = 0 THEN "" ELSE Head(s) \o Join(Tail(s))

\* [p.strip() for p in data['text'].split('\n\n') if p.strip()]
RECURSIVE StripAll(_)
StripAll(pieces) ==
    IF Len(pieces) = 0 THEN <<>>
    ELSE IF Len(Strip(Head(pieces))) > 0
         THEN <<Join(Strip(Head(pieces)))>> \o StripAll(Tail(pieces))
         ELSE StripAll(Tail(pieces))

text_segments(data) == StripAll(Split(data["text"]))

\* hashlib.md5(text.encode()).hexdigest()
get_cache_key(text) ==
    CASE text = "hello world" -> "5eb63bbbe01eeed093cb22bb8f5acdc3"
      [] text = "goodbye"     -> "69faab6268350295550de7d587bc323d"
      [] text = "hello"       -> "5d41402abc4b2a76b9719d911017c592"
      [] text = "farewell"    -> "fd0615cafc0230be1c22d6dc21ec5732"

-----------------------------------------------------------------------------
(* The annotator and the entities of a doc *)

Ent(label, text) == [label_ |-> label, text |-> text]

\* doc.ents of nlp(text): the external model, deterministic
NLP(text) ==
    CASE text = "hello world" -> <<Ent("PERSON", "Bob"), Ent("PERSON", "Bob")>>
      [] text = "goodbye"     -> <<>>
      [] text = "hello"       -> <<Ent("PERSON", "Alice"), Ent("ORG", "Acme"), Ent("PERSON", "Bob")>>

\* nlp.pipe(texts): one doc per text, in order
Pipe(texts) == [j \in 1..Len(texts) |-> NLP(texts[j])]

extract_entities_from_doc(ents, seed) ==
    LET labels == {ents[j].label_ : j \in 1..Len(ents)}
        entities == [l \in labels |-> {ents[j].text : j \in {n \in 1..Len(ents) : ents[n].label_ = l}}]
    IN  [l \in labels |-> ListOfSet(entities[l], seed)]

-----------------------------------------------------------------------------
(* Files *)

Absent == [state |-> "absent", data |-> EmptyDict]
Pickled(d) == [state |-> "valid", data |-> d]
ZeroBytes == [state |-> "empty", data |-> EmptyDict]
Truncated == [state |-> "truncated", data |-> EmptyDict]

\* os.path.exists(f)
Exists(f) == f.state # "absent"
\* pickle.load(f) raises (EOFError, UnpicklingError) on anything but a whole pickle
LoadRaises(f) == f.state \in {"empty", "truncated"}

NoOutput == [exists |-> FALSE, lines |-> <<>>]

\* the JSON objects an input line can hold: documents whose keys and texts
\* repeat, a text with padding and an empty paragraph, a text with no
\* segment, and objects that lack a key
Doc(a, p, t) == [accession |-> a, path |-> p, text |-> t]
Lines ==
    << Doc("B", "z", <<" ", "hello", PARA, " ", PARA, "hello", " ", "world", " ">>),
       Doc("A", "x", <<"hello", " ", "world">>),
       Doc("A", "y", <<"hello", " ", "world">>),
       Doc("B", "z", <<"goodbye">>),
       Doc("B", "z", <<" ", PARA>>),
       [accession |-> "A", path |-> "x"],
       [path |-> "z", text |-> <<"goodbye">>] >>

\* the lines of Lines whose numbers are in S, in order
RECURSIVE Select(_, _)
Select(S, n) ==
    IF n = 0 THEN <<>>
    ELSE IF n \in S THEN Append(Select(S, n - 1), Lines[n]) ELSE Select(S, n - 1)

\* the input files: at most MaxRecords of the lines
InputFiles ==
    {Select(S, Len(Lines)) : S \in {T \in SUBSET (1..Len(Lines)) : Cardinality(T) <= MaxRecords}}

\* what an earlier run of the pipeline may have left in the cache for a text
Stored(text) ==
    CASE text = "hello world" -> [PERSON |-> <<"Eve">>]
      [] text = "goodbye"     -> EmptyDict
      [] text = "hello"       -> [PERSON |-> <<"Bob", "Alice">>, ORG |-> <<"Acme">>]
      [] text = "farewell"    -> [ORG |-> <<"Acme">>]

Texts == {"hello world", "goodbye", "hello"}
CacheOf(T) == [k \in {get_cache_key(t) : t \in T} |->
                  Stored(CHOOSE t \in T : get_cache_key(t) = k)]
CacheFiles == {Absent, Truncated} \cup {Pickled(CacheOf(T)) : T \in SUBSET Texts}

-----------------------------------------------------------------------------
(* The loops of extract_all_entities_from_jsonl, as functions of their inputs *)

\* one line of the input raises KeyError: data['text'] is read first, and
\* data['accession'], data['path'] once per segment
ReadRaises(data) ==
    \/ "text" \notin DOMAIN data
    \/ /\ Len(text_segments(data)) > 0
       /\ ~({"accession", "path"} \subseteq DOMAIN data)

Meta(data) == [accession |-> data["accession"], path |-> data["path"]]

\* the reading loop: all_text and text_metadata after the lines
RECURSIVE ReadLines(_, _)
ReadLines(lines, acc) ==
    IF Len(lines) = 0 THEN acc
    ELSE LET data == Head(lines)
             segs == text_segments(data)
         IN  ReadLines(Tail(lines),
                 [all_text |-> acc.all_text \o segs,
                  text_metadata |-> acc.text_metadata \o [j \in 1..Len(segs) |-> Meta(data)]])

ReadInput(lines) == ReadLines(lines, [all_text |-> <<>>, text_metadata |-> <<>>])

\* (mutant) planning that leaves a text already in the batch out of it
RECURSIVE PlanFrom_skipsRepeats(_, _, _, _)
PlanFrom_skipsRepeats(i, texts, snapshot, st) ==
    IF i > Len(texts) THEN st
    ELSE LET cache_key == get_cache_key(texts[i])
         IN  IF cache_key \in DOMAIN snapshot
             THEN PlanFrom_skipsRepeats(i + 1, texts, snapshot,
                      [st EXCEPT !.cached_entities = Append(@, snapshot[cache_key]),
                                 !.cache_hits = @ + 1])
             ELSE IF texts[i] \in Range(st.texts_to_process)
             THEN PlanFrom_skipsRepeats(i + 1, texts, snapshot,
                      [st EXCEPT !.cached_entities = Append(@, None)])
             ELSE PlanFrom_skipsRepeats(i + 1, texts, snapshot,
                      [st EXCEPT !.texts_to_process = Append(@, texts[i]),
                                 !.text_indices = Append(@, i),
                                 !.cached_entities = Append(@, None)])

\* (mutant) planning that reserves no slot for a miss
RECURSIVE PlanFrom_noPlaceholder(_, _, _, _)
PlanFrom_noPlaceholder(i, texts, snapshot, st) ==
    IF i > Len(texts) THEN st
    ELSE LET cache_key == get_cache_key(texts[i])
         IN  IF cache_key \in DOMAIN snapshot
             THEN PlanFrom_noPlaceholder(i + 1, texts, snapshot,
                      [st EXCEPT !.cached_entities = Append(@, snapshot[cache_key]),
                                 !.cache_hits = @ + 1])
             ELSE PlanFrom_noPlaceholder(i + 1, texts, snapshot,
                      [st EXCEPT !.texts_to_process = Append(@, texts[i]),
                                 !.text_indices = Append(@, i)])

\* (mutant) planning that puts every segment in the batch, hits included
RECURSIVE PlanFrom_batchesAll(_, _, _, _)
PlanFrom_batchesAll(i, texts, snapshot, st) ==
    IF i > Len(texts) THEN st
    ELSE LET cache_key == get_cache_key(texts[i])
         IN  IF cache_key \in DOMAIN snapshot
             THEN PlanFrom_batchesAll(i + 1, texts, snapshot,
                      [st EXCEPT !.texts_to_process = Append(@, texts[i]),
                                 !.text_indices = Append(@, i),
                                 !.cached_entities = Append(@, snapshot[cache_key]),
                                 !.cache_hits = @ + 1])
             ELSE PlanFrom_batchesAll(i + 1, texts, snapshot,
                      [st EXCEPT !.texts_to_process = Append(@, texts[i]),
                                 !.text_indices = Append(@, i),
                                 !.cached_entities = Append(@, None)])

\* the planning loop from index i on
RECURSIVE PlanFrom(_, _, _, _)
PlanFrom(i, texts, snapshot, st) ==
    IF i > Len(texts) THEN st
    ELSE LET cache_key == get_cache_key(texts[i])
         IN  IF cache_key \in DOMAIN snapshot
             THEN PlanFrom(i + 1, texts, snapshot,
                      [st EXCEPT !.cached_entities = Append(@, snapshot[cache_key]),
                                 !.cache_hits = @ + 1])
             ELSE PlanFrom(i + 1, texts, snapshot,
                      [st EXCEPT !.texts_to_process = Append(@, texts[i]),
                                 !.text_indices = Append(@, i),
                                 !.cached_entities = Append(@, None)])

PlanSegments(texts, snapshot) ==
    PlanFrom(1, texts, snapshot,
        [texts_to_process |-> <<>>, text_indices |-> <<>>,
         cached_entities |-> <<>>, cache_hits |-> 0])

\* (mutant) scatter-back that stores the i-th result at index i
RECURSIVE ScatterFrom_byPosition(_, _, _, _, _, _)
ScatterFrom_byPosition(i, docs, indices, texts, seed, st) ==
    IF i > Len(docs) THEN st
    ELSE LET entities == extract_entities_from_doc(docs[i], seed)
             cache_key == get_cache_key(texts[i])
         IN  ScatterFrom_byPosition(i + 1, docs, indices, texts, seed,
                 [cached_entities |-> [st.cached_entities EXCEPT ![i] = entities],
                  new_cache_entries |-> DictSet(st.new_cache_entries, cache_key, entities)])

\* the scatter-back loop from position i of processed_docs on
RECURSIVE ScatterFrom(_, _, _, _, _, _)
ScatterFrom(i, docs, indices, texts, seed, st) ==
    IF i > Len(docs) THEN st
    ELSE LET original_idx == indices[i]
             entities == extract_entities_from_doc(docs[i], seed)
             cache_key == get_cache_key(texts[i])
         IN  ScatterFrom(i + 1, docs, indices, texts, seed,
                 [cached_entities |-> [st.cached_entities EXCEPT ![original_idx] = entities],
                  new_cache_entries |-> DictSet(st.new_cache_entries, cache_key, entities)])

\* (mutant) merge in which a segment's entity list replaces the set of its type
MergeEntities_overwrites(by_type, entities) ==
    [t \in (DOMAIN by_type) \cup (DOMAIN entities) |->
        IF t \in DOMAIN entities THEN Range(entities[t]) ELSE by_type[t]]

\* doc_entities[key][entity_type].add(entity) for every entity of one segment
MergeEntities(by_type, entities) ==
    [t \in (DOMAIN by_type) \cup (DOMAIN entities) |->
        (IF t \in DOMAIN by_type THEN by_type[t] ELSE {})
        \cup (IF t \in DOMAIN entities THEN Range(entities[t]) ELSE {})]

\* (mutant) grouping that keeps only the first segment of a document
RECURSIVE GroupFrom_firstSegmentOnly(_, _, _, _)
GroupFrom_firstSegmentOnly(i, ents, metas, de) ==
    IF i > Len(ents) \/ i > Len(metas) THEN de
    ELSE LET key == <<metas[i].accession, metas[i].path>>
             seen == key \in DOMAIN de.map
         IN  GroupFrom_firstSegmentOnly(i + 1, ents, metas,
                 IF seen THEN de
                 ELSE [order |-> Append(de.order, key),
                       map |-> DictSet(de.map, key, MergeEntities(EmptyDict, ents[i]))])

\* the grouping loop over zip(cached_entities, text_metadata) from index i on
RECURSIVE GroupFrom(_, _, _, _)
GroupFrom(i, ents, metas, de) ==
    IF i > Len(ents) \/ i > Len(metas) THEN de
    ELSE LET key == <<metas[i].accession, metas[i].path>>
             seen == key \in DOMAIN de.map
             by_type == IF seen THEN de.map[key] ELSE EmptyDict
         IN  GroupFrom(i + 1, ents, metas,
                 [order |-> IF seen THEN de.order ELSE Append(de.order, key),
                  map |-> DictSet(de.map, key, MergeEntities(by_type, ents[i]))])

NoDocs == [order |-> <<>>, map |-> EmptyDict]
GroupByDocument(ents, metas) == GroupFrom(1, ents, metas, NoDocs)

\* the final records, one per key of doc_entities, in insertion order
BuildRecords(de, seed) ==
    [j \in 1..Len(de.order) |->
        [accession |-> de.order[j][1],
         path |-> de.order[j][2],
         entities |-> [t \in DOMAIN de.map[de.order[j]] |->
                          ListOfSet(de.map[de.order[j]][t], seed)]]]

-----------------------------------------------------------------------------
(* The state machine *)

NoPlan == [snapshot |-> NoCache, cached_entities |-> <<>>]

\* what a finished call leaves for the next one to be compared with
Summary ==
    [outcome |-> IF killed THEN "killed" ELSE pc, at |-> pc, error |-> error,
     cache_file_at_call |-> cache_file_at_call, cache_file |-> cache_file,
     text_indices |-> text_indices, nlp_calls |-> nlp_calls,
     doc_entities |-> doc_entities]

FreshLocals ==
    /\ error = "none"
    /\ cache = NoCache
    /\ all_text = <<>>
    /\ text_metadata = <<>>
    /\ texts_to_process = <<>>
    /\ text_indices = <<>>
    /\ cached_entities = <<>>
    /\ cache_hits = 0
    /\ new_cache_entries = EmptyDict
    /\ processed_docs = <<>>
    /\ doc_entities = NoDocs
    /\ records = <<>>
    /\ nlp_calls = <<>>
    /\ planned = NoPlan
    /\ reloaded = NoCache
    /\ killed = FALSE

Init ==
    /\ cache_file \in CacheFiles
    /\ output_file = NoOutput
    /\ input_file = <<>>
    /\ pc = "idle"
    /\ FreshLocals
    /\ cache_file_at_call = cache_file
    /\ prev = Summary
    /\ batch_files = <<>>
    /\ records_dir = <<>>
    /\ batch = 0

Raise(exc) == pc' = "aborted" /\ error' = exc

\* extract_all_entities_from_jsonl(input_file, output_file) is called
Call ==
    /\ pc = "idle"
    /\ \E f \in InputFiles : input_file' = f
    /\ pc' = "load"
    /\ UNCHANGED <<cache_file, output_file, error, cache, all_text, text_metadata,
                   texts_to_process, text_indices, cached_entities, cache_hits,
                   new_cache_entries, processed_docs, doc_entities, records,
                   nlp_calls, planned, killed, cache_file_at_call, prev, reloaded,
                   batch_files, records_dir, batch>>

\* lines 24-28
LoadCache ==
    /\ pc = "load" /\ ~killed
    /\ IF ~Exists(cache_file)
       THEN cache' = EmptyDict /\ pc' = "read" /\ error' = error
       ELSE IF LoadRaises(cache_file)
            THEN Raise("UnpicklingError") /\ cache' = cache
            ELSE cache' = cache_file.data /\ pc' = "read" /\ error' = error
    /\ UNCHANGED <<cache_file, output_file, input_file, all_text, text_metadata,
                   texts_to_process, text_indices, cached_entities, cache_hits,
                   new_cache_entries, processed_docs, doc_entities, records,
                   nlp_calls, planned, killed, cache_file_at_call, prev, reloaded,
                   batch_files, records_dir, batch>>

\* lines 31-48
ReadSegments ==
    /\ pc = "read" /\ ~killed
    /\ IF \E j \in 1..Len(input_file) : ReadRaises(input_file[j])
       THEN Raise("KeyError") /\ UNCHANGED <<all_text, text_metadata>>
       ELSE /\ all_text' = ReadInput(input_file).all_text
            /\ text_metadata' = ReadInput(input_file).text_metadata
            /\ pc' = "plan" /\ error' = error
    /\ UNCHANGED <<cache_file, output_file, input_file, cache,
                   texts_to_process, text_indices, cached_entities, cache_hits,
                   new_cache_entries, processed_docs, doc_entities, records,
                   nlp_calls, planned, killed, cache_file_at_call, prev, reloaded,
                   batch_files, records_dir, batch>>

\* lines 57-74
Plan ==
    /\ pc = "plan" /\ ~killed
    /\ LET st == PlanSegments(all_text, cache)
       IN  /\ texts_to_process' = st.texts_to_process
           /\ text_indices' = st.text_indices
           /\ cached_entities' = st.cached_entities
           /\ cache_hits' = st.cache_hits
           /\ planned' = [snapshot |-> cache, cached_entities |-> st.cached_entities]
    /\ new_cache_entries' = EmptyDict
    /\ pc' = "stats"
    /\ UNCHANGED <<cache_file, output_file, input_file, error, cache, all_text,
                   text_metadata, processed_docs, doc_entities, records,
                   nlp_calls, killed, cache_file_at_call, prev, reloaded,
                   batch_files, records_dir, batch>>

\* line 76: cache_hits/len(all_text)
PrintHitRate ==
    /\ pc = "stats" /\ ~killed
    /\ IF Len(all_text) = 0
       THEN Raise("ZeroDivisionError")
       ELSE pc' = "del" /\ error' = error
    /\ UNCHANGED <<cache_file, output_file, input_file, cache, all_text, text_metadata,
                   texts_to_process, text_indices, cached_entities, cache_hits,
                   new_cache_entries, processed_docs, doc_entities, records,
                   nlp_calls, planned, killed, cache_file_at_call, prev, reloaded,
                   batch_files, records_dir, batch>>

\* (mutant) the snapshot is kept while the annotator runs
DeleteCache_keepsSnapshot ==
    /\ pc = "del" /\ ~killed
    /\ pc' = IF Len(texts_to_process) > 0 THEN "annotate" ELSE "group"
    /\ UNCHANGED <<cache_file, output_file, input_file, error, cache, all_text, text_metadata,
                   texts_to_process, text_indices, cached_entities, cache_hits,
                   new_cache_entries, processed_docs, doc_entities, records,
                   nlp_calls, planned, killed, cache_file_at_call, prev, reloaded,
                   batch_files, records_dir, batch>>

\* (mutant) the annotation and commit branch is taken whatever the plan found
DeleteCache_commitsAlways ==
    /\ pc = "del" /\ ~killed
    /\ cache' = NoCache
    /\ pc' = "annotate"
    /\ UNCHANGED <<cache_file, output_file, input_file, error, all_text, text_metadata,
                   texts_to_process, text_indices, cached_entities, cache_hits,
                   new_cache_entries, processed_docs, doc_entities, records,
                   nlp_calls, planned, killed, cache_file_at_call, prev, reloaded,
                   batch_files, records_dir, batch>>

\* lines 79-83: del cache, then the branch on texts_to_process
DeleteCache ==
    /\ pc = "del" /\ ~killed
    /\ cache' = NoCache
    /\ pc' = IF Len(texts_to_process) > 0 THEN "annotate" ELSE "group"
    /\ UNCHANGED <<cache_file, output_file, input_file, error, all_text, text_metadata,
                   texts_to_process, text_indices, cached_entities, cache_hits,
                   new_cache_entries, processed_docs, doc_entities, records,
                   nlp_calls, planned, killed, cache_file_at_call, prev, reloaded,
                   batch_files, records_dir, batch>>

\* lines 86-92: spacy.load and nlp.pipe over the whole batch
Annotate ==
    /\ pc = "annotate" /\ ~killed
    /\ nlp_calls' = Append(nlp_calls, texts_to_process)
    /\ processed_docs' = Pipe(texts_to_process)
    /\ pc' = "scatter"
    /\ UNCHANGED <<cache_file, output_file, input_file, error, cache, all_text,
                   text_metadata, texts_to_process, text_indices, cached_entities,
                   cache_hits, new_cache_entries, doc_entities, records,
                   planned, killed, cache_file_at_call, prev, reloaded,
                   batch_files, records_dir, batch>>

\* (mutant) the annotator's exception is caught and the call goes on
AnnotateFails_keepsGoing ==
    /\ pc = "annotate" /\ ~killed
    /\ nlp_calls' = Append(nlp_calls, texts_to_process)
    /\ processed_docs' = <<>>
    /\ error' = "AnnotatorError"
    /\ pc' = "scatter"
    /\ UNCHANGED <<cache_file, output_file, input_file, cache, all_text,
                   text_metadata, texts_to_process, text_indices, cached_entities,
                   cache_hits, new_cache_entries, doc_entities, records,
                   planned, killed, cache_file_at_call, prev, reloaded,
                   batch_files, records_dir, batch>>

\* lines 86-92 when the annotator raises: nothing catches it
AnnotateFails ==
    /\ pc = "annotate" /\ ~killed
    /\ nlp_calls' = Append(nlp_calls, texts_to_process)
    /\ Raise("AnnotatorError")
    /\ UNCHANGED <<cache_file, output_file, input_file, cache, all_text,
                   text_metadata, texts_to_process, text_indices, cached_entities,
                   cache_hits, new_cache_entries, processed_docs, doc_entities, records,
                   planned, killed, cache_file_at_call, prev, reloaded,
                   batch_files, records_dir, batch>>

\* (mutant) scatter-back that writes the new entries to the cache file as it goes
ScatterBack_writesThrough ==
    /\ pc = "scatter" /\ ~killed
    /\ \E seed \in HashSeeds :
         LET st == ScatterFrom(1, processed_docs, text_indices, texts_to_process, seed,
                       [cached_entities |-> cached_entities,
                        new_cache_entries |-> new_cache_entries])
         IN  /\ cached_entities' = st.cached_entities
             /\ new_cache_entries' = st.new_cache_entries
             /\ cache_file' = Pickled(DictUpdate(cache_file.data, st.new_cache_entries))
    /\ pc' = "reload"
    /\ UNCHANGED <<output_file, input_file, error, cache, all_text,
                   text_metadata, texts_to_process, text_indices, cache_hits,
                   processed_docs, doc_entities, records,
                   nlp_calls, planned, killed, cache_file_at_call, prev, reloaded,
                   batch_files, records_dir, batch>>

\* lines 96-103
ScatterBack ==
    /\ pc = "scatter" /\ ~killed
    /\ \E seed \in HashSeeds :
         LET st == ScatterFrom(1, processed_docs, text_indices, texts_to_process, seed,
                       [cached_entities |-> cached_entities,
                        new_cache_entries |-> new_cache_entries])
         IN  /\ cached_entities' = st.cached_entities
             /\ new_cache_entries' = st.new_cache_entries
    /\ pc' = "reload"
    /\ UNCHANGED <<cache_file, output_file, input_file, error, cache, all_text,
                   text_metadata, texts_to_process, text_indices, cache_hits,
                   processed_docs, doc_entities, records,
                   nlp_calls, planned, killed, cache_file_at_call, prev, reloaded,
                   batch_files, records_dir, batch>>

\* (mutant) the commit merges the new entries into the planning-time snapshot
ReloadCache_usesSnapshot ==
    /\ pc = "reload" /\ ~killed
    /\ reloaded' = IF Exists(cache_file) THEN cache_file.data ELSE EmptyDict
    /\ cache' = DictUpdate(planned.snapshot, new_cache_entries)
    /\ pc' = "open"
    /\ UNCHANGED <<cache_file, output_file, input_file, error, all_text, text_metadata,
                   texts_to_process, text_indices, cached_entities, cache_hits,
                   new_cache_entries, processed_docs, doc_entities, records,
                   nlp_calls, planned, killed, cache_file_at_call, prev,
                   batch_files, records_dir, batch>>

\* lines 109-116: read the file again and add the new entries
ReloadCache ==
    /\ pc = "reload" /\ ~killed
    /\ IF Exists(cache_file) /\ LoadRaises(cache_file)
       THEN Raise("UnpicklingError") /\ cache' = cache /\ reloaded' = reloaded
       ELSE /\ reloaded' = IF Exists(cache_file) THEN cache_file.data ELSE EmptyDict
            /\ cache' = DictUpdate(reloaded', new_cache_entries)
            /\ pc' = "open" /\ error' = error
    /\ UNCHANGED <<cache_file, output_file, input_file, all_text, text_metadata,
                   texts_to_process, text_indices, cached_entities, cache_hits,
                   new_cache_entries, processed_docs, doc_entities, records,
                   nlp_calls, planned, killed, cache_file_at_call, prev,
                   batch_files, records_dir, batch>>

\* line 119: open(cache_file, 'wb') truncates the file
OpenCacheForWrite ==
    /\ pc = "open" /\ ~killed
    /\ cache_file' = ZeroBytes
    /\ pc' = "dump"
    /\ UNCHANGED <<output_file, input_file, error, cache, all_text, text_metadata,
                   texts_to_process, text_indices, cached_entities, cache_hits,
                   new_cache_entries, processed_docs, doc_entities, records,
                   nlp_calls, planned, killed, cache_file_at_call, prev, reloaded,
                   batch_files, records_dir, batch>>

\* (mutant) the dump writes what was read back, without the new entries
DumpCache_dumpsReloaded ==
    /\ pc = "dump" /\ ~killed
    /\ cache_file' = Pickled(reloaded)
    /\ cache' = NoCache
    /\ pc' = "group"
    /\ UNCHANGED <<output_file, input_file, error, all_text, text_metadata,
                   texts_to_process, text_indices, cached_entities, cache_hits,
                   new_cache_entries, processed_docs, doc_entities, records,
                   nlp_calls, planned, killed, cache_file_at_call, prev, reloaded,
                   batch_files, records_dir, batch>>

\* lines 120-124: pickle.dump, the file is closed, del cache
DumpCache ==
    /\ pc = "dump" /\ ~killed
    /\ cache_file' = Pickled(cache)
    /\ cache' = NoCache
    /\ pc' = "group"
    /\ UNCHANGED <<output_file, input_file, error, all_text, text_metadata,
                   texts_to_process, text_indices, cached_entities, cache_hits,
                   new_cache_entries, processed_docs, doc_entities, records,
                   nlp_calls, planned, killed, cache_file_at_call, prev, reloaded,
                   batch_files, records_dir, batch>>

\* lines 130-142
GroupEntities ==
    /\ pc = "group" /\ ~killed
    /\ doc_entities' = GroupByDocument(cached_entities, text_metadata)
    /\ pc' = "build"
    /\ UNCHANGED <<cache_file, output_file, input_file, error, cache, all_text,
                   text_metadata, texts_to_process, text_indices, cached_entities,
                   cache_hits, new_cache_entries, processed_docs, records,
                   nlp_calls, planned, killed, cache_file_at_call, prev, reloaded,
                   batch_files, records_dir, batch>>

\* lines 145-156
BuildFinalRecords ==
    /\ pc = "build" /\ ~killed
    /\ \E seed \in HashSeeds : records' = BuildRecords(doc_entities, seed)
    /\ pc' = "save"
    /\ UNCHANGED <<cache_file, output_file, input_file, error, cache, all_text,
                   text_metadata, texts_to_process, text_indices, cached_entities,
                   cache_hits, new_cache_entries, processed_docs, doc_entities,
                   nlp_calls, planned, killed, cache_file_at_call, prev, reloaded,
                   batch_files, records_dir, batch>>

\* line 159: open(output_file, 'w') creates or truncates the file
OpenOutput ==
    /\ pc = "save" /\ ~killed
    /\ output_file' = [exists |-> TRUE, lines |-> <<>>]
    /\ pc' = "write"
    /\ UNCHANGED <<cache_file, input_file, error, cache, all_text,
                   text_metadata, texts_to_process, text_indices, cached_entities,
                   cache_hits, new_cache_entries, processed_docs, doc_entities, records,
                   nlp_calls, planned, killed, cache_file_at_call, prev, reloaded,
                   batch_files, records_dir, batch>>

\* lines 160-162: every record is written and the file is closed
WriteRecords ==
    /\ pc = "write" /\ ~killed
    /\ output_file' = [exists |-> TRUE, lines |-> records]
    /\ pc' = "done"
    /\ UNCHANGED <<cache_file, input_file, error, cache, all_text,
                   text_metadata, texts_to_process, text_indices, cached_entities,
                   cache_hits, new_cache_entries, processed_docs, doc_entities, records,
                   nlp_calls, planned, killed, cache_file_at_call, prev, reloaded,
                   batch_files, records_dir, batch>>

Running == {"load", "read", "plan", "stats", "del", "annotate", "scatter", "reload",
            "open", "dump", "group", "build", "save", "write"}

\* the process is killed where it stands; a file it holds open for writing
\* keeps whatever reached the disk: for the cache nothing or a prefix of the
\* pickle, for the output a prefix of the records
Kill ==
    /\ pc \in Running /\ ~killed
    /\ killed' = TRUE
    /\ IF pc = "dump"
       THEN cache_file' \in {ZeroBytes, Truncated}
       ELSE cache_file' = cache_file
    /\ IF pc = "write"
       THEN \E n \in 0..Len(records) :
               output_file' = [exists |-> TRUE, lines |-> SubSeq(records, 1, n)]
       ELSE output_file' = output_file
    /\ UNCHANGED <<input_file, pc, error, cache, all_text,
                   text_metadata, texts_to_process, text_indices, cached_entities,
                   cache_hits, new_cache_entries, processed_docs, doc_entities, records,
                   nlp_calls, planned, cache_file_at_call, prev, reloaded,
                   batch_files, records_dir, batch>>

Ended == pc \in {"done", "aborted"} \/ killed

\* the same call is made again, in a new process, on the same files
CallAgain ==
    /\ Ended
    /\ prev' = Summary
    /\ pc' = "load"
    /\ error' = "none"
    /\ cache' = NoCache
    /\ all_text' = <<>>
    /\ text_metadata' = <<>>
    /\ texts_to_process' = <<>>
    /\ text_indices' = <<>>
    /\ cached_entities' = <<>>
    /\ cache_hits' = 0
    /\ new_cache_entries' = EmptyDict
    /\ processed_docs' = <<>>
    /\ doc_entities' = NoDocs
    /\ records' = <<>>
    /\ nlp_calls' = <<>>
    /\ planned' = NoPlan
    /\ reloaded' = NoCache
    /\ killed' = FALSE
    /\ cache_file_at_call' = cache_file
    /\ UNCHANGED <<cache_file, output_file, input_file, batch_files, records_dir, batch>>

Next ==
    \/ Call
    \/ LoadCache
    \/ ReadSegments
    \/ Plan
    \/ PrintHitRate
    \/ DeleteCache
    \/ Annotate
    \/ AnnotateFails
    \/ ScatterBack
    \/ ReloadCache
    \/ OpenCacheForWrite
    \/ DumpCache
    \/ GroupEntities
    \/ BuildFinalRecords
    \/ OpenOutput
    \/ WriteRecords
    \/ Kill
    \/ CallAgain

Spec == Init /\ [][Next]_vars

-----------------------------------------------------------------------------
(* Another process of the pipeline that shares the cache file *)

\* the texts the other process has annotated
OtherTexts == {"farewell", "goodbye"}

\* lines 107-121 in the other process, while this one is between its first
\* read of the cache file and its second: the file gains an entry
OtherWriter ==
    /\ pc \in {"read", "plan", "stats", "del", "annotate", "scatter", "reload"} /\ ~killed
    /\ ~LoadRaises(cache_file)
    /\ \E t \in OtherTexts :
          cache_file' = Pickled(DictSet(cache_file.data, get_cache_key(t), Stored(t)))
    /\ cache_file' # cache_file
    /\ UNCHANGED <<output_file, input_file, pc, error, cache, all_text,
                   text_metadata, texts_to_process, text_indices, cached_entities,
                   cache_hits, new_cache_entries, processed_docs, doc_entities, records,
                   nlp_calls, planned, killed, cache_file_at_call, prev, reloaded,
                   batch_files, records_dir, batch>>

NextShared ==
    \/ Next
    \/ OtherWriter

SpecShared == Init /\ [][NextShared]_vars

-----------------------------------------------------------------------------
(* main: one call per batch file that has no output file yet, all on the   *)
(* same cache file                                                         *)

\* the batch files glob can find: the example, a document with two
\* segments, a file with a document that has no segment, a file with no
\* segment at all
Batches ==
    << <<Lines[1]>>,
       <<Lines[2], Lines[3], Lines[4]>>,
       <<Lines[4], Lines[5]>>,
       <<Lines[5]>> >>

\* the batches of Batches whose numbers are in S, in order
RECURSIVE SelectBatches(_, _)
SelectBatches(S, n) ==
    IF n = 0 THEN <<>>
    ELSE IF n \in S THEN Append(SelectBatches(S, n - 1), Batches[n])
    ELSE SelectBatches(S, n - 1)

BatchLists ==
    {SelectBatches(S, Len(Batches)) :
        S \in {T \in SUBSET (1..Len(Batches)) : Cardinality(T) <= MaxBatches}}

\* lines 169-173
InitMain ==
    /\ cache_file \in CacheFiles
    /\ output_file = NoOutput
    /\ input_file = <<>>
    /\ pc = "main"
    /\ FreshLocals
    /\ cache_file_at_call = cache_file
    /\ prev = Summary
    /\ batch_files \in BatchLists
    /\ records_dir = [j \in 1..Len(batch_files) |-> NoOutput]
    /\ batch = 1

\* the locals of a call that is over are gone
ForgetLocals ==
    /\ error' = "none"
    /\ cache' = NoCache
    /\ all_text' = <<>>
    /\ text_metadata' = <<>>
    /\ texts_to_process' = <<>>
    /\ text_indices' = <<>>
    /\ cached_entities' = <<>>
    /\ cache_hits' = 0
    /\ new_cache_entries' = EmptyDict
    /\ processed_docs' = <<>>
    /\ doc_entities' = NoDocs
    /\ records' = <<>>
    /\ nlp_calls' = <<>>
    /\ planned' = NoPlan
    /\ reloaded' = NoCache

\* lines 176-180: the output file of this batch exists, the batch is skipped
MainSkip ==
    /\ pc = "main" /\ ~killed
    /\ batch <= Len(batch_files)
    /\ records_dir[batch].exists
    /\ batch' = batch + 1
    /\ UNCHANGED <<cache_file, output_file, input_file, pc, error, cache, all_text,
                   text_metadata, texts_to_process, text_indices, cached_entities,
                   cache_hits, new_cache_entries, processed_docs, doc_entities, records,
                   nlp_calls, planned, killed, cache_file_at_call, prev, reloaded,
                   batch_files, records_dir>>

\* lines 176-182: extract_all_entities_from_jsonl is called on this batch;
\* while the call runs, output_file is the file records_dir[batch]
MainCall ==
    /\ pc = "main" /\ ~killed
    /\ batch <= Len(batch_files)
    /\ ~records_dir[batch].exists
    /\ input_file' = batch_files[batch]
    /\ output_file' = records_dir[batch]
    /\ cache_file_at_call' = cache_file
    /\ pc' = "load"
    /\ UNCHANGED <<cache_file, error, cache, all_text,
                   text_metadata, texts_to_process, text_indices, cached_entities,
                   cache_hits, new_cache_entries, processed_docs, doc_entities, records,
                   nlp_calls, planned, killed, prev, reloaded,
                   batch_files, records_dir, batch>>

\* line 183: the call returned, on to the next batch
MainReturn ==
    /\ pc = "done" /\ ~killed
    /\ batch >= 1
    /\ prev' = Summary
    /\ records_dir' = [records_dir EXCEPT ![batch] = output_file]
    /\ batch' = batch + 1
    /\ pc' = "main"
    /\ ForgetLocals
    /\ UNCHANGED <<cache_file, output_file, input_file, killed, cache_file_at_call,
                   batch_files>>

\* line 176: no batch is left, main returns
MainExit ==
    /\ pc = "main" /\ ~killed
    /\ batch > Len(batch_files)
    /\ pc' = "exit"
    /\ UNCHANGED <<cache_file, output_file, input_file, error, cache, all_text,
                   text_metadata, texts_to_process, text_indices, cached_entities,
                   cache_hits, new_cache_entries, processed_docs, doc_entities, records,
                   nlp_calls, planned, killed, cache_file_at_call, prev, reloaded,
                   batch_files, records_dir, batch>>

\* the process is killed between two calls
MainKill ==
    /\ pc = "main" /\ ~killed
    /\ killed' = TRUE
    /\ UNCHANGED <<cache_file, output_file, input_file, pc, error, cache, all_text,
                   text_metadata, texts_to_process, text_indices, cached_entities,
                   cache_hits, new_cache_entries, processed_docs, doc_entities, records,
                   nlp_calls, planned, cache_file_at_call, prev, reloaded,
                   batch_files, records_dir, batch>>

InCall == pc \in Running \cup {"done", "aborted"}

\* main is run again, in a new process, after it returned, was killed or
\* was ended by an exception of a call
MainAgain ==
    /\ batch >= 1
    /\ killed \/ pc \in {"aborted", "exit"}
    /\ prev' = IF InCall THEN Summary ELSE prev
    /\ records_dir' = IF InCall THEN [records_dir EXCEPT ![batch] = output_file]
                      ELSE records_dir
    /\ batch' = 1
    /\ pc' = "main"
    /\ killed' = FALSE
    /\ ForgetLocals
    /\ UNCHANGED <<cache_file, output_file, input_file, cache_file_at_call, batch_files>>

NextMain ==
    \/ MainSkip
    \/ MainCall
    \/ MainReturn
    \/ MainExit
    \/ MainKill
    \/ MainAgain
    \/ LoadCache
    \/ ReadSegments
    \/ Plan
    \/ PrintHitRate
    \/ DeleteCache
    \/ Annotate
    \/ AnnotateFails
    \/ ScatterBack
    \/ ReloadCache
    \/ OpenCacheForWrite
    \/ DumpCache
    \/ GroupEntities
    \/ BuildFinalRecords
    \/ OpenOutput
    \/ WriteRecords
    \/ Kill

SpecMain == InitMain /\ [][NextMain]_vars

-----------------------------------------------------------------------------
(* Vocabulary of the properties *)

\* the call has got past the step that leaves pc = p
Planned == pc \in {"stats", "del", "annotate", "scatter", "reload", "open", "dump",
                   "group", "build", "save", "write", "done"}
         \/ (pc = "aborted" /\ error \in {"ZeroDivisionError", "AnnotatorError"})
Scattered == pc \in {"reload", "open", "dump", "group", "build", "save", "write", "done"}
Grouped == pc \in {"build", "save", "write", "done"}

\* the segments of the example: (A,x,"hello world"), (A,y,"hello world"), (B,z,"goodbye")
ExampleFile == <<Lines[2], Lines[3], Lines[4]>>
EmptyCacheAtCall == cache_file_at_call \in {Absent, Pickled(EmptyDict)}

\* how many times x occurs in the sequence s
Count(s, x) == Cardinality({j \in 1..Len(s) : s[j] = x})

-----------------------------------------------------------------------------
(* C1: Idempotence. When a call that ran to completion is followed by a    *)
(* second call on the same input, the second call hands no text to the     *)
(* annotator and does not abort, the cache file stays what the first call  *)
(* left, and the second call's document aggregates equal the first's. When *)
(* the first call aborted on its input or on the cache file, the second    *)
(* aborts with the same error: neither calls the annotator, changes the    *)
(* cache file or produces aggregates.                                      *)
C1_Idempotence ==
    /\ (prev.outcome = "done" /\ pc # "idle") =>
          /\ nlp_calls = <<>>
          /\ pc # "aborted"
          /\ cache_file = prev.cache_file
          /\ Grouped => doc_entities = prev.doc_entities
    /\ (prev.outcome = "aborted" /\ prev.error # "AnnotatorError" /\ pc # "idle") =>
          /\ nlp_calls = <<>>
          /\ cache_file = prev.cache_file
          /\ pc = "aborted" => error = prev.error
          /\ ~Grouped
          /\ doc_entities = prev.doc_entities

C1_Witness ==
    /\ prev.outcome = "done"
    /\ pc = "done"
    /\ Len(prev.nlp_calls) > 0
    /\ prev.cache_file # prev.cache_file_at_call
    /\ Len(doc_entities.order) >= 2

-----------------------------------------------------------------------------
-----------------------------------------------------------------------------
(* C3: a kill during the commit step (reload, open for writing, dump)      *)
(* leaves the cache file either as it was before the commit or holding the *)
(* complete merged content.                                                *)
C3_CommitIsAtomic ==
    (killed /\ pc \in {"reload", "open", "dump"}) =>
        \/ cache_file = cache_file_at_call
        \/ cache_file = Pickled(DictUpdate(cache_file_at_call.data, new_cache_entries))

-----------------------------------------------------------------------------
(* C4: when the annotator raises, the call is aborted with that error and  *)
(* the cache file is what it was when the call began.                      *)
C4_AnnotatorFailureWritesNothing ==
    error = "AnnotatorError" =>
        /\ pc = "aborted"
        /\ cache_file = cache_file_at_call

C4_Witness ==
    /\ error = "AnnotatorError"
    /\ pc = "aborted"
    /\ Len(texts_to_process) >= 2
    /\ cache_file.state = "valid"
    /\ cache_hits >= 1

-----------------------------------------------------------------------------
(* C5: a cache file that exists and cannot be parsed is treated as an      *)
(* empty store: the call does not end with the load error.                 *)
C5_CorruptCacheIsColdStart ==
    LoadRaises(cache_file_at_call) => error # "UnpicklingError"

-----------------------------------------------------------------------------
(* C6: an input line that lacks a required key never aborts the call.      *)
C6_MalformedRecordIsSkipped ==
    (\E j \in 1..Len(input_file) : ~({"accession", "path", "text"} \subseteq DOMAIN input_file[j]))
        => error # "KeyError"

-----------------------------------------------------------------------------
(* C7: Crash before commit. A process killed after the annotation and      *)
(* before the cache file is opened for writing leaves the cache file as it *)
(* was when the call began; the next call on the same input starts from    *)
(* that same file, reaches planning, and plans exactly the misses of the   *)
(* killed call.                                                            *)
BeforeCommit == {"scatter", "reload", "open"}

C7_CrashBeforeCommit ==
    /\ (killed /\ pc \in BeforeCommit) => cache_file = cache_file_at_call
    /\ (prev.outcome = "killed" /\ prev.at \in BeforeCommit /\ pc # "idle") =>
          /\ cache_file_at_call = prev.cache_file_at_call
          /\ pc = "aborted" => error = "AnnotatorError"
          /\ Planned => text_indices = prev.text_indices

C7_Witness ==
    /\ prev.outcome = "killed"
    /\ prev.at = "open"
    /\ pc = "done"
    /\ Len(text_indices) >= 2
    /\ cache_hits >= 1

-----------------------------------------------------------------------------
(* C8: Partition completeness. After planning every segment index is a hit *)
(* (its slot holds the cached result) or a miss (it is in text_indices and *)
(* its slot holds the placeholder), never both and never neither, and      *)
(* cache_hits + len(texts_to_process) = len(all_text); after scatter-back  *)
(* the result array has one entry per segment, none the placeholder.       *)
IsHit(i) ==
    /\ get_cache_key(all_text[i]) \in DOMAIN cache
    /\ cached_entities[i] = cache[get_cache_key(all_text[i])]

IsMiss(i) ==
    /\ i \in Range(text_indices)
    /\ cached_entities[i] = None

C8_PartitionCompleteness ==
    /\ pc \in {"stats", "del"} =>
          /\ Len(cached_entities) = Len(all_text)
          /\ cache_hits + Len(texts_to_process) = Len(all_text)
          /\ Len(text_indices) = Len(texts_to_process)
          /\ \A i \in 1..Len(all_text) : IsHit(i) # IsMiss(i)
    /\ (pc = "group" \/ Scattered) =>
          /\ Len(cached_entities) = Len(all_text)
          /\ \A i \in 1..Len(all_text) : cached_entities[i] # None

C8_Witness ==
    /\ pc = "reload"
    /\ cache_hits >= 1
    /\ Len(texts_to_process) >= 2
    /\ \A i \in 1..Len(all_text) : cached_entities[i] # None

-----------------------------------------------------------------------------
(* C9: Order preservation. After scatter-back, the entities of the         *)
(* annotator's j-th doc are in the result array at index text_indices[j],  *)
(* the index at which the j-th text of the batch stands in all_text, and   *)
(* every slot that is not a miss holds what planning put there.            *)
C9_OrderPreservation ==
    Scattered =>
        /\ Len(processed_docs) = Len(text_indices)
        /\ \E seed \in HashSeeds :
              \A j \in 1..Len(text_indices) :
                  cached_entities[text_indices[j]] = extract_entities_from_doc(processed_docs[j], seed)
        /\ \A j \in 1..Len(text_indices) :
              /\ text_indices[j] \in 1..Len(all_text)
              /\ all_text[text_indices[j]] = texts_to_process[j]
        /\ \A i \in 1..Len(all_text) :
              i \notin Range(text_indices) => cached_entities[i] = planned.cached_entities[i]

C9_Witness ==
    /\ pc = "reload"
    /\ Len(text_indices) >= 2
    /\ text_indices[1] # 1
    /\ cache_hits >= 1
    /\ processed_docs[1] # processed_docs[2]

-----------------------------------------------------------------------------
(* C10: Aggregation commutativity. Grouping the (segment, result) pairs in *)
(* any other order gives the same document keys and, for every key and     *)
(* entity type, the same set of entity strings.                            *)
Permute(s, f) == [j \in 1..Len(s) |-> s[f[j]]]
Orders == Permutations(1..Len(cached_entities))

C10_AggregationCommutes ==
    Grouped =>
        \A f \in Orders :
            GroupByDocument(Permute(cached_entities, f), Permute(text_metadata, f)).map
                = doc_entities.map

C10_Witness ==
    /\ pc = "build"
    /\ \E f \in Orders :
          GroupByDocument(Permute(cached_entities, f), Permute(text_metadata, f)).order
              # doc_entities.order
    /\ \E i, j \in 1..Len(cached_entities) :
          /\ text_metadata[i] = text_metadata[j]
          /\ cached_entities[i] # cached_entities[j]
          /\ cached_entities[i] # EmptyDict
          /\ cached_entities[j] # EmptyDict

-----------------------------------------------------------------------------
(* C11: Stale-read guard. The file the commit leaves is what was on disk   *)
(* at the commit-time read merged with the new entries; every key that     *)
(* another writer added between the planning-time read and the commit-time *)
(* read is in the file after the commit, with the other writer's value     *)
(* unless the key is one of the new entries.                               *)
Committed == pc \in {"group", "build", "save", "write", "done"} /\ reloaded # NoCache
AddedByOthers == (DOMAIN reloaded) \ (DOMAIN planned.snapshot)

C11_StaleReadGuard ==
    Committed =>
        /\ cache_file = Pickled(DictUpdate(reloaded, new_cache_entries))
        /\ \A k \in AddedByOthers :
              /\ k \in DOMAIN cache_file.data
              /\ k \notin DOMAIN new_cache_entries => cache_file.data[k] = reloaded[k]

C11_Witness ==
    /\ Committed
    /\ pc = "done"
    /\ AddedByOthers # {}
    /\ DOMAIN planned.snapshot # {}
    /\ AddedByOthers \ DOMAIN new_cache_entries # {}

-----------------------------------------------------------------------------
(* C12: Monotonic growth. Under main, where the calls run one at a time on *)
(* the same cache file: from the start of a call to its end the key set of *)
(* the cache file only grows (the one exception is the instant between     *)
(* open(cache_file, 'wb') and pickle.dump, when the file is being          *)
(* rewritten); between two calls the file does not change, so the next     *)
(* call starts from the key set the previous call left.                    *)
Keys(f) == DOMAIN f.data

-----------------------------------------------------------------------------
(* C13: Persist before output. In a call that handed texts to the          *)
(* annotator, from the moment aggregation is about to start until the call *)
(* has returned, and also when the process is killed anywhere in between,  *)
(* the cache file is a whole pickle that holds every new entry with its    *)
(* value and the fingerprint of every text of the batch; the output file   *)
(* is opened only after that.                                              *)
AfterCommit == {"group", "build", "save", "write", "done"}

C13_PersistBeforeOutput ==
    (nlp_calls # <<>> /\ pc \in AfterCommit) =>
        /\ cache_file.state = "valid"
        /\ \A k \in DOMAIN new_cache_entries :
              /\ k \in Keys(cache_file)
              /\ cache_file.data[k] = new_cache_entries[k]
        /\ \A j \in 1..Len(texts_to_process) :
              get_cache_key(texts_to_process[j]) \in Keys(cache_file)

C13_Witness ==
    /\ killed
    /\ pc \in {"group", "build", "save", "write"}
    /\ nlp_calls # <<>>
    /\ DOMAIN new_cache_entries # {}
    /\ Keys(cache_file_at_call) # Keys(cache_file)

-----------------------------------------------------------------------------
(* C14: Hits are never re-submitted. A call hands texts to the annotator   *)
(* at most once; every text it hands over is the text of the segment at    *)
(* the matching index of text_indices, and that text's fingerprint is not  *)
(* a key of the snapshot the plan was made from; when the plan found no    *)
(* miss the annotator is not called at all.                                *)
C14_HitsNeverResubmitted ==
    /\ Len(nlp_calls) <= 1
    /\ \A c \in 1..Len(nlp_calls) :
          /\ Len(nlp_calls[c]) > 0
          /\ Len(nlp_calls[c]) = Len(text_indices)
          /\ \A j \in 1..Len(nlp_calls[c]) :
                /\ nlp_calls[c][j] = all_text[text_indices[j]]
                /\ get_cache_key(nlp_calls[c][j]) \notin DOMAIN planned.snapshot
    /\ (Planned /\ Len(texts_to_process) = 0) => nlp_calls = <<>>

C14_Witness ==
    /\ pc = "done"
    /\ Len(nlp_calls) = 1
    /\ cache_hits >= 1
    /\ Len(nlp_calls[1]) < Len(all_text)

-----------------------------------------------------------------------------
(* C15: Aggregation result. When the call has returned, the output file    *)
(* holds one record for every (accession, path) that has a segment and no  *)
(* other record; in the record of a key, each entity type's list has no    *)
(* repeated string and holds exactly the strings that the results of the   *)
(* segments of that key hold for this type, and the record has an entry    *)
(* for a type only if some segment of the key has one (so a document whose *)
(* segments have no entities has a record with empty entities).            *)
DocKey(r) == <<r.accession, r.path>>
DocKeys == {DocKey(text_metadata[i]) : i \in 1..Len(text_metadata)}
SegmentsOf(k) == {i \in 1..Len(text_metadata) : DocKey(text_metadata[i]) = k}
StringsOf(entities, t) == IF t \in DOMAIN entities THEN Range(entities[t]) ELSE {}
TypesOf(k) == UNION {DOMAIN cached_entities[i] : i \in SegmentsOf(k)}

C15_AggregationResult ==
    pc = "done" =>
        /\ output_file.exists
        /\ \A k \in DocKeys :
              Cardinality({j \in 1..Len(output_file.lines) :
                              DocKey(output_file.lines[j]) = k}) = 1
        /\ \A j \in 1..Len(output_file.lines) :
              LET r == output_file.lines[j]
              IN  /\ DocKey(r) \in DocKeys
                  /\ DOMAIN r.entities = TypesOf(DocKey(r))
                  /\ \A t \in DOMAIN r.entities :
                        /\ Len(r.entities[t]) = Cardinality(Range(r.entities[t]))
                        /\ Range(r.entities[t]) =
                              UNION {StringsOf(cached_entities[i], t) :
                                        i \in SegmentsOf(DocKey(r))}

C15_Witness ==
    /\ pc = "done"
    /\ Len(output_file.lines) >= 2
    /\ \E k \in DocKeys : \E i, j \in SegmentsOf(k) :
          /\ cached_entities[i] # cached_entities[j]
          /\ cached_entities[i] # EmptyDict
          /\ cached_entities[j] # EmptyDict

-----------------------------------------------------------------------------
(* C16: Commit postcondition. When a call has returned, the fingerprint of *)
(* every segment of its input is a key of the cache file, and the file has *)
(* as many keys more than at the start of the call as the miss segments    *)
(* have distinct texts; the example file on an empty cache leaves a cache  *)
(* file of 2 entries.                                                      *)
MissTexts == {all_text[i] : i \in Range(text_indices)}

C16_CommitPostcondition ==
    pc = "done" =>
        /\ cache_file.state \in {"valid", "absent"}
        /\ \A i \in 1..Len(all_text) : get_cache_key(all_text[i]) \in Keys(cache_file)
        /\ Cardinality(Keys(cache_file) \ Keys(cache_file_at_call)) = Cardinality(MissTexts)
        /\ Cardinality(Keys(cache_file)) =
              Cardinality(Keys(cache_file_at_call)) + Cardinality(MissTexts)
        /\ (input_file = ExampleFile /\ EmptyCacheAtCall) =>
              Cardinality(Keys(cache_file)) = 2

C16_Witness ==
    /\ pc = "done"
    /\ input_file = ExampleFile
    /\ EmptyCacheAtCall
    /\ Len(text_indices) = 3
    /\ Cardinality(Keys(cache_file)) = 2

-----------------------------------------------------------------------------
(* C17: The commit merges only newly computed entries. After scatter-back  *)
(* the keys of new_cache_entries are exactly the fingerprints of the miss  *)
(* segments, none of them a key of the snapshot the plan was made from and *)
(* none the fingerprint of a segment that was a hit; after the commit the  *)
(* cache file holds the keys read back at lines 109-113 and the new keys   *)
(* and no other, and every key read back that is not a new key has the     *)
(* value that was read back.                                               *)
MissFingerprints == {get_cache_key(all_text[i]) : i \in Range(text_indices)}
HitFingerprints ==
    {get_cache_key(all_text[i]) :
        i \in {j \in 1..Len(all_text) : planned.cached_entities[j] # None}}

C17_CommitMergesOnlyNew ==
    /\ Scattered =>
          /\ DOMAIN new_cache_entries = MissFingerprints
          /\ DOMAIN new_cache_entries \cap DOMAIN planned.snapshot = {}
          /\ DOMAIN new_cache_entries \cap HitFingerprints = {}
    /\ Committed =>
          /\ Keys(cache_file) = DOMAIN reloaded \cup DOMAIN new_cache_entries
          /\ \A k \in DOMAIN reloaded \ MissFingerprints :
                cache_file.data[k] = reloaded[k]

C17_Witness ==
    /\ Committed
    /\ pc = "group"
    /\ cache_hits >= 1
    /\ MissFingerprints # {}
    /\ DOMAIN reloaded \ (MissFingerprints \cup HitFingerprints) # {}

-----------------------------------------------------------------------------
(* C18: Scope-bounded snapshot. From the branch at line 83 until the cache *)
(* file is read again at line 109, so in every state in which the          *)
(* annotator runs or has raised, the name cache is unbound; what is bound  *)
(* to it for the commit is the dict read back merged with the new entries, *)
(* never the snapshot, and it is unbound again after the dump. After the   *)
(* release no lookup happens: the hits are the hits of the plan, with the  *)
(* entities the plan found.                                                *)
Released == pc \in {"annotate", "scatter", "reload", "open", "dump", "group", "build",
                    "save", "write", "done"}
            \/ (pc = "aborted" /\ error = "AnnotatorError")
PlanHits == {i \in 1..Len(planned.cached_entities) : planned.cached_entities[i] # None}

C18_ScopeBoundedSnapshot ==
    Released =>
        /\ pc \notin {"open", "dump"} => cache = NoCache
        /\ pc \in {"open", "dump"} => cache = DictUpdate(reloaded, new_cache_entries)
        /\ cache_hits = Cardinality(PlanHits)
        /\ \A i \in PlanHits : cached_entities[i] = planned.cached_entities[i]

C18_Witness ==
    /\ pc = "scatter"
    /\ ~killed
    /\ Len(nlp_calls) = 1
    /\ cache_hits >= 1
    /\ DOMAIN planned.snapshot # {}
    /\ cache = NoCache

-----------------------------------------------------------------------------
(* C19: A call whose plan found every segment in the cache never reaches   *)
(* the annotation and commit branch: the annotator is not loaded or        *)
(* called, the cache file is not read again or opened for writing, and     *)
(* the cache file is, at every later point of the call, the file the call  *)
(* started with.                                                           *)
AllHits == Planned /\ Len(texts_to_process) = 0

C19_AllHitsLeaveCacheFile ==
    AllHits =>
        /\ pc \notin {"annotate", "scatter", "reload", "open", "dump"}
        /\ nlp_calls = <<>>
        /\ processed_docs = <<>>
        /\ reloaded = NoCache
        /\ cache_file = cache_file_at_call

C19_Witness ==
    /\ AllHits
    /\ pc = "done"
    /\ Len(all_text) >= 2
    /\ cache_hits = Len(all_text)
    /\ Len(output_file.lines) >= 1

-----------------------------------------------------------------------------
(* C20: Resumability of the driver. When main has returned, after any      *)
(* number of interrupted runs, every batch file has an output file that    *)
(* holds exactly one record for each document of the batch that has a      *)
(* segment.                                                                *)
BatchKeys(b) ==
    LET metas == ReadInput(batch_files[b]).text_metadata
    IN  {DocKey(metas[i]) : i \in 1..Len(metas)}

Complete(f, b) ==
    /\ f.exists
    /\ Len(f.lines) = Cardinality(BatchKeys(b))
    /\ {DocKey(f.lines[j]) : j \in 1..Len(f.lines)} = BatchKeys(b)

C20_ResumedMainCompletesEveryBatch ==
    pc = "exit" => \A b \in 1..Len(batch_files) : Complete(records_dir[b], b)

-----------------------------------------------------------------------------
(* C21: A call whose input can be read and yields no segment (the file is  *)
(* empty, or no text has a non-blank paragraph), on a cache file that can  *)
(* be loaded, never ends with an exception.                                *)
Readable == \A j \in 1..Len(input_file) : ~ReadRaises(input_file[j])
ZeroSegments == Readable /\ Len(ReadInput(input_file).all_text) = 0

C21_ZeroSegmentsCompletes ==
    (pc # "idle" /\ ZeroSegments /\ ~LoadRaises(cache_file_at_call)) => pc # "aborted"

====
